---- MODULE Spec2Model ----
\* django-chronograph: the Job / Log models (chronograph/models.py) and the
\* administrative actions on jobs (chronograph/admin.py) as a state machine.
\* Time is counted in whole seconds.  Text (stdout, stderr, mail bodies) is a
\* sequence of chunks; the empty text is the empty sequence.
EXTENDS Integers, Sequences, FiniteSets, TLC

VARIABLES clock, jobs, logs, mails, proc, ended, nruns, form, channels

vars == <<clock, jobs, logs, mails, proc, ended, nruns, form, channels>>

\* ---------------------------------------------------------------- bounds

MaxTime == 1
MaxRuns == 1
MaxOverlap == 2
MaxPeriods == 60

JobIds == {1}
Procs == {1, 2}

\* A null DateTimeField (next_run, last_run).
Null == -1

\* ------------------------------------------------------- recurrence rule

\* One ','-separated piece of a token's value text: the text of an integer, or
\* text that int() does not take (a word, or nothing at all).
Num(n) == [isint |-> TRUE, n |-> n]
Word == [isint |-> FALSE, n |-> 0]

\* One token of the params text: the key before ':', the ','-separated pieces
\* after it, and how many ':' the token holds.
ParamToken(key, vals, colons) == [key |-> key, vals |-> vals, colons |-> colons]

\* Job.get_params: the tokens with exactly one ':' become (key, value) pairs,
\* every piece of the value going through int(), which raises on text that is
\* no integer; a one-element value list collapses to a scalar, dict() keeps the
\* last pair of a repeated key.  A value is tagged scalar or list.
get_params(params) ==
    LET valid == {i \in 1..Len(params) : params[i].colons = 1}
        keys == {params[i].key : i \in valid}
        last(k) == CHOOSE i \in valid : params[i].key = k
                       /\ \A i2 \in valid : params[i2].key = k => i2 <= i
        ints(i) == [n \in 1..Len(params[i].vals) |-> params[i].vals[n].n]
    IN [raised |-> \E i \in valid : \E n \in 1..Len(params[i].vals) : ~params[i].vals[n].isint,
        dict |-> [k \in keys |->
                    IF Len(params[last(k)].vals) = 1
                    THEN [scalar |-> TRUE, v |-> ints(last(k))[1]]
                    ELSE [scalar |-> FALSE, v |-> ints(last(k))]]]

\* The length in seconds of one period of a frequency class; an unknown
\* frequency falls back to DAILY.
FreqSeconds(frequency) ==
    CASE frequency = "SECONDLY" -> 1
      [] frequency = "MINUTELY" -> 60
      [] frequency = "HOURLY" -> 3600
      [] OTHER -> 86400

SetMin(S) == CHOOSE x \in S : \A y \in S : x <= y

\* The values a by-filter admits: the listed ones, or by default every value
\* when the frequency is at least as fine as the filter's unit and the value
\* of dtstart otherwise.
ByValues(d, key, unit, U, all, ofstart) ==
    IF key \in DOMAIN d
    THEN IF d[key].scalar THEN {d[key].v} ELSE {d[key].v[i] : i \in 1..Len(d[key].v)}
    ELSE IF U <= unit THEN all ELSE {ofstart}

\* rrule.rrule(frequency, dtstart=dtstart, **d): the occurrences of the rule,
\* period by period from the period holding dtstart, not before dtstart, the
\* first `count` of them when count is given.
Occurrences(frequency, dtstart, d) ==
    LET U == FreqSeconds(frequency)
        interval == IF "interval" \in DOMAIN d THEN d["interval"].v ELSE 1
        secset == ByValues(d, "bysecond", 1, U, 0..59, dtstart % 60)
        minset == ByValues(d, "byminute", 60, U, 0..59, (dtstart \div 60) % 60)
        hourset == ByValues(d, "byhour", 3600, U, 0..23, (dtstart \div 3600) % 24)
        base(k) == (dtstart \div U) * U + k * interval * U
        times(k) ==
            LET b == base(k)
                H == IF U >= 86400 THEN hourset ELSE {(b \div 3600) % 24} \cap hourset
                M == IF U >= 3600 THEN minset ELSE {(b \div 60) % 60} \cap minset
                S == IF U >= 60 THEN secset ELSE {b % 60} \cap secset
            IN {(b \div 86400) * 86400 + h * 3600 + m * 60 + s : h \in H, m \in M, s \in S}
        all == {t \in UNION {times(k) : k \in 0..MaxPeriods} : t >= dtstart}
    IN IF "count" \in DOMAIN d
       THEN {t \in all : Cardinality({u \in all : u < t}) < d["count"].v}
       ELSE all

\* rrule.after(dt): the first occurrence strictly after dt, None when there is
\* none.
After(frequency, dtstart, d, dt) ==
    LET later == {t \in Occurrences(frequency, dtstart, d) : t > dt}
    IN IF later = {} THEN Null ELSE SetMin(later)

\* Job.get_rrule followed by .after(dt): the rule is anchored at last_run.
RruleAfter(self, dt) == After(self.frequency, self.last_run, get_params(self.params).dict, dt)

\* ------------------------------------------------------------- the store

\* Job.save raises when it asks for the rule and the params do not parse.
SaveRaises(self) == ~self.disabled /\ self.next_run = Null /\ get_params(self.params).raised

\* Job.save: an enabled job gets last_run = now when it has none and next_run
\* from the rule when it has none; a disabled job loses its next_run.  The
\* whole record is written.
Save(self, now) ==
    IF ~self.disabled
    THEN LET a == IF self.last_run = Null THEN [self EXCEPT !.last_run = now] ELSE self
         IN IF a.next_run = Null THEN [a EXCEPT !.next_run = RruleAfter(a, a.last_run)] ELSE a
    ELSE [self EXCEPT !.next_run = Null]

\* The comparison of a nullable column in a filter: a null operand makes the
\* comparison unknown.
SqlLte(x, y) == IF x = Null \/ y = Null THEN "unknown" ELSE IF x <= y THEN "true" ELSE "false"

\* A due() that would keep a row unless a condition on it is false, so that a
\* job without next_run counts as due.
DueUnlessLater(now) ==
    {j \in JobIds : /\ SqlLte(jobs[j].next_run, now) # "false"
                    /\ jobs[j].disabled = FALSE
                    /\ jobs[j].is_running = FALSE}

\* A due() that would not look at is_running.
DueWhileRunning(now) ==
    {j \in JobIds : /\ SqlLte(jobs[j].next_run, now) = "true"
                    /\ jobs[j].disabled = FALSE}

\* JobManager.due: the rows the filter keeps are those for which every
\* condition is true.
Due(now) ==
    {j \in JobIds : /\ SqlLte(jobs[j].next_run, now) = "true"
                    /\ jobs[j].disabled = FALSE
                    /\ jobs[j].is_running = FALSE}

\* --------------------------------------------------------------- executor

\* One whitespace-separated token of the args text: its parts around '=' and
\* whether it holds a quotation mark that is never closed.
ArgToken(parts, openquote) == [parts |-> parts, openquote |-> openquote]

\* Job.get_args: a token holding '=' is unpacked into exactly key and value,
\* which raises when the token has more than one '='; the others are
\* positional, in order.
get_args(args) ==
    LET isopt(t) == Len(t.parts) > 1
        opts == {i \in 1..Len(args) : isopt(args[i])}
        keys == {args[i].parts[1] : i \in opts}
        last(k) == CHOOSE i \in opts : args[i].parts[1] = k
                       /\ \A i2 \in opts : args[i2].parts[1] = k => i2 <= i
        pos == SelectSeq(args, LAMBDA t : ~isopt(t))
    IN [raised |-> \E i \in opts : Len(args[i].parts) # 2,
        args |-> [i \in 1..Len(pos) |-> pos[i].parts[1]],
        options |-> [k \in keys |-> args[last(k)].parts[2]]]

\* shlex.split of the command line: raises on an unclosed quotation.
ShlexRaises(args) == \E i \in 1..Len(args) : args[i].openquote

\* What the outside world does with one command: the text it writes and how it
\* ends.  A shell command exits with code 0 or 1, or cannot be spawned; an
\* in-process command returns, raises an Exception, or raises what is no
\* Exception (SystemExit, KeyboardInterrupt).  Where an error is caught, the
\* rendering of its text by _get_exception_string may fail in turn.
Outputs == {[out |-> <<>>, err |-> <<>>], [out |-> <<"out">>, err |-> <<>>],
            [out |-> <<>>, err |-> <<"err">>]}
ShellEnvs == {[kind |-> k, out |-> o.out, err |-> o.err] : k \in {"exit0", "exit1"}, o \in Outputs}
                 \cup {[kind |-> k, out |-> <<>>, err |-> <<>>] : k \in {"spawn", "spawn, no text"}}
CallEnvs == {[kind |-> k, out |-> o.out, err |-> o.err] : k \in {"return", "raise"}, o \in Outputs}
                \cup {[kind |-> k, out |-> <<>>, err |-> <<>>] : k \in {"raise, no text", "exit"}}

\* What an executor hands back to Job.run: either an error that propagates
\* (raised) or the triple (successful, stdout_str, stderr_str).
Propagates(why) ==
    [raised |-> TRUE, successful |-> FALSE, stdout_str |-> <<>>, stderr_str |-> <<>>,
     outcome |-> why]
Returns(successful, out, err, why) ==
    [raised |-> FALSE, successful |-> successful, stdout_str |-> out, stderr_str |-> err,
     outcome |-> why]

\* Job.run_shell_command.  The line is tokenized before the try block when it
\* does not run in a shell; inside the try block a spawn failure and a
\* non-zero return code both add to stderr.
run_shell_command(self, env) ==
    IF ~self.run_in_shell /\ ShlexRaises(self.args)
    THEN Propagates("tokenize")
    ELSE IF env.kind = "spawn, no text"
    THEN Propagates("format")
    ELSE IF env.kind = "spawn"
    THEN Returns(FALSE, <<>>, <<"traceback">>, "spawn")
    ELSE IF env.kind = "exit1"
    THEN Returns(FALSE, env.out, env.err \o <<"return code">>, "nonzero")
    ELSE Returns(TRUE, env.out, env.err, "ok")

\* Job.run_management_command.  get_args runs before the try block; an
\* Exception of call_command is caught and its text follows the captured
\* stderr; what is no Exception, and a failure to render the text, leave the
\* method.
run_management_command(self, env) ==
    IF get_args(self.args).raised
    THEN Propagates("argparse")
    ELSE IF env.kind = "exit"
    THEN Propagates("not an Exception")
    ELSE IF env.kind = "raise, no text"
    THEN Propagates("format in redirect")
    ELSE IF env.kind = "raise"
    THEN Returns(FALSE, env.out, env.err \o <<"traceback">>, "raise")
    ELSE Returns(TRUE, env.out, env.err, "ok")

\* run_management_command sets sys.stdout and sys.stderr to its buffers after
\* get_args and sets them back to what they were in the statements after the
\* try block, which an error leaving the method never reaches.
redirect(self, env, before) ==
    IF ~get_args(self.args).raised /\ env.kind \in {"exit", "raise, no text"}
    THEN "redirected" ELSE before

\* The executor Job.run picks, and what the world may do to it.
UsesShell(self) == self.shell_command # ""
EnvsOf(self) == IF UsesShell(self) THEN ShellEnvs ELSE CallEnvs
Executor(self, env) ==
    IF UsesShell(self) THEN run_shell_command(self, env) ELSE run_management_command(self, env)

\* ---------------------------------------------------------- notification

\* A choice of mail that would look at stdout first: any run that wrote to
\* stdout mails the info subscribers.
NotifyStdoutFirst(successful, stdout_str, stderr_str) ==
    IF stdout_str # <<>> THEN "info"
    ELSE IF ~successful THEN "error"
    ELSE IF stderr_str # <<>> THEN "info"
    ELSE "none"

\* A choice of mail that would go by the streams alone: text on stderr mails
\* the error subscribers, text on stdout only the info subscribers.
NotifyByStderr(successful, stdout_str, stderr_str) ==
    IF stderr_str # <<>> THEN "error"
    ELSE IF stdout_str # <<>> THEN "info"
    ELSE "none"

\* Job.run, after the Log is created: a failed run mails the error
\* subscribers, a successful one with any output the info subscribers.
NotifyKind(successful, stdout_str, stderr_str) ==
    IF ~successful THEN "error"
    ELSE IF stdout_str # <<>> \/ stderr_str # <<>> THEN "info"
    ELSE "none"

\* Log.email_subscribers: the one send_mail call, to the job's info
\* subscribers with the log's stdout or to its error subscribers with a link
\* to the log; the log's stderr goes along in both.
email_subscribers(logid, is_info) ==
    [log |-> logid,
     to |-> IF is_info THEN "info_subscribers" ELSE "subscribers",
     info_output |-> IF is_info THEN logs[logid].stdout ELSE <<"link">>,
     error_output |-> logs[logid].stderr]

\* ------------------------------------------------------------------ state

\* The job definitions the model starts from, as the admin form posts them:
\* a schedule and a command.
JobForms ==
    {[frequency |-> "SECONDLY", params |-> <<>>,
      command |-> "", shell_command |-> "cmd", run_in_shell |-> FALSE,
      args |-> <<ArgToken(<<"arg1">>, FALSE)>>],
     [frequency |-> "SECONDLY", params |-> <<>>,
      command |-> "", shell_command |-> "cmd", run_in_shell |-> FALSE,
      args |-> <<ArgToken(<<"'arg1">>, TRUE)>>],
     [frequency |-> "SECONDLY", params |-> <<>>,
      command |-> "cmd", shell_command |-> "", run_in_shell |-> FALSE,
      args |-> <<ArgToken(<<"a", "b", "c">>, FALSE)>>],
     [frequency |-> "SECONDLY", params |-> <<ParamToken("count", <<Num(1)>>, 1)>>,
      command |-> "cmd", shell_command |-> "", run_in_shell |-> FALSE,
      args |-> <<ArgToken(<<"arg1">>, FALSE), ArgToken(<<"option1", "True">>, FALSE)>>],
     [frequency |-> "SECONDLY",
      params |-> <<ParamToken("count", <<Num(1)>>, 1), ParamToken("bysecond", <<Num(1)>>, 1)>>,
      command |-> "", shell_command |-> "cmd", run_in_shell |-> FALSE,
      args |-> <<ArgToken(<<"arg1">>, FALSE)>>],
     [frequency |-> "MINUTELY",
      params |-> <<ParamToken("badtoken", <<>>, 0), ParamToken("bysecond", <<Num(1), Num(2)>>, 1)>>,
      command |-> "", shell_command |-> "cmd", run_in_shell |-> TRUE,
      args |-> <<ArgToken(<<"'arg1">>, TRUE)>>]}

\* A Job instance built from a form: the field defaults of the model, with the
\* posted fields filled in.
NewJob(f) ==
    [frequency |-> f.frequency, params |-> f.params,
     command |-> f.command, shell_command |-> f.shell_command,
     run_in_shell |-> f.run_in_shell, args |-> f.args,
     disabled |-> FALSE, next_run |-> Null, last_run |-> Null,
     is_running |-> FALSE, last_run_successful |-> TRUE]

NoJob == NewJob([frequency |-> "", params |-> <<>>, command |-> "", shell_command |-> "",
                 run_in_shell |-> FALSE, args |-> <<>>])

\* A caller outside Job.run: nothing loaded, nothing in progress.
IdleProc ==
    [pc |-> "idle", rows |-> {}, id |-> 0, job |-> NoJob, save |-> TRUE,
     run_date |-> Null, next_run0 |-> Null,
     raised |-> FALSE, successful |-> FALSE, stdout_str |-> <<>>, stderr_str |-> <<>>,
     outcome |-> "", log |-> 0, result |-> ""]

\* No request to the admin add/change form has been made.
NoForm ==
    [state |-> "none",
     data |-> [frequency |-> "", params |-> <<>>, command |-> "", shell_command |-> "",
               run_in_shell |-> FALSE, args |-> <<>>]]

\* Every job has been created through Job.save at time 0; sys.stdout and
\* sys.stderr of every caller's process are the original ones.
Init ==
    /\ clock = 0
    /\ jobs \in [JobIds -> {Save(NewJob(f), 0) : f \in JobForms}]
    /\ logs = <<>>
    /\ mails = <<>>
    /\ proc = [p \in Procs |-> IdleProc]
    /\ ended = [j \in JobIds |-> 0]
    /\ nruns = 0
    /\ form = NoForm
    /\ channels = [p \in Procs |-> "original"]

\* ---------------------------------------------------------------- actions

\* now() moves on.
Tick ==
    /\ clock < MaxTime
    /\ clock' = clock + 1
    /\ UNCHANGED <<jobs, logs, mails, proc, ended, nruns, form, channels>>

\* A caller that is not inside run() and holds no rows; a new caller takes the
\* first such slot (callers have no identity of their own).
Free(p) == proc[p].pc \in {"idle", "done"} /\ proc[p].rows = {}
Slot(p) == Free(p) /\ \A q \in Procs : q < p => ~Free(q)

\* The driver evaluates Job.objects.due(): it holds the rows as they were
\* when the query ran.
DueQuery(p) ==
    /\ Slot(p)
    /\ proc' = [proc EXCEPT ![p] = [IdleProc EXCEPT !.pc = "selected",
                   !.rows = {[id |-> j, row |-> jobs[j]] : j \in Due(clock)}]]
    /\ UNCHANGED <<clock, jobs, logs, mails, ended, nruns, form, channels>>

\* The driver calls run() on the next of the rows it holds; a run() that
\* raised has ended the driver's loop.
DriverRun(p) ==
    /\ proc[p].pc \in {"selected", "done"}
    /\ proc[p].pc = "done" => proc[p].result = "returned"
    /\ \E r \in proc[p].rows :
          proc' = [proc EXCEPT ![p] = [IdleProc EXCEPT !.pc = "start",
                      !.rows = proc[p].rows \ {r}, !.id = r.id, !.job = r.row,
                      !.save = TRUE]]
    /\ nruns' = nruns + 1
    /\ UNCHANGED <<clock, jobs, logs, mails, ended, form, channels>>

\* The driver has gone through its rows, or stops with rows left.
DriverDone(p) ==
    /\ proc[p].pc = "selected" \/ (proc[p].pc = "done" /\ proc[p].rows # {})
    /\ proc' = [proc EXCEPT ![p].pc = IF proc[p].pc = "done" THEN "done" ELSE "idle",
                            ![p].rows = {}]
    /\ UNCHANGED <<clock, jobs, logs, mails, ended, nruns, form, channels>>

\* JobAdmin.run_job_view: the job is loaded by its key and run, with save left
\* at its default.
RunJobView(p, j) ==
    /\ Slot(p)
    /\ proc' = [proc EXCEPT ![p] = [IdleProc EXCEPT !.pc = "start", !.id = j,
                                       !.job = jobs[j], !.save = TRUE]]
    /\ nruns' = nruns + 1
    /\ UNCHANGED <<clock, jobs, logs, mails, ended, form, channels>>

\* A caller loads the job and calls run(save=False).
RunNoSave(p, j) ==
    /\ Slot(p)
    /\ proc' = [proc EXCEPT ![p] = [IdleProc EXCEPT !.pc = "start", !.id = j,
                                       !.job = jobs[j], !.save = FALSE]]
    /\ nruns' = nruns + 1
    /\ UNCHANGED <<clock, jobs, logs, mails, ended, form, channels>>

\* Job.run, first statements: run_date = now(), is_running = True, save().
\* next_run0 remembers the stored next_run the run found.
RunStart(p) ==
    /\ proc[p].pc = "start"
    /\ LET self == Save([proc[p].job EXCEPT !.is_running = TRUE], clock)
       IN /\ jobs' = [jobs EXCEPT ![proc[p].id] = self]
          /\ proc' = [proc EXCEPT ![p].pc = "exec", ![p].job = self,
                                  ![p].run_date = clock,
                                  ![p].next_run0 = jobs[proc[p].id].next_run]
    /\ UNCHANGED <<clock, logs, mails, ended, nruns, form, channels>>

\* A run() that would not load the job again after the command and go on with
\* the instance it has held since its first save().
ExecuteNoReload(p) ==
    /\ proc[p].pc = "exec"
    /\ \E env \in EnvsOf(proc[p].job) :
          LET r == Executor(proc[p].job, env)
              got == [proc[p] EXCEPT !.raised = r.raised, !.successful = r.successful,
                                     !.stdout_str = r.stdout_str,
                                     !.stderr_str = r.stderr_str, !.outcome = r.outcome]
          IN /\ IF r.raised
                THEN /\ proc' = [proc EXCEPT ![p] = [got EXCEPT !.pc = "done",
                                    !.result = "raised"]]
                     /\ ended' = [ended EXCEPT ![proc[p].id] = @ + 1]
                ELSE /\ proc' = [proc EXCEPT ![p] = [got EXCEPT !.pc = "save1",
                                    !.job = [proc[p].job EXCEPT
                                                !.last_run_successful = r.successful,
                                                !.is_running = FALSE]]]
                     /\ UNCHANGED ended
             /\ channels' = [channels EXCEPT ![p] =
                                IF UsesShell(proc[p].job) THEN @
                                ELSE redirect(proc[p].job, env, @)]
    /\ UNCHANGED <<clock, jobs, logs, mails, nruns, form>>

\* Job.run, the try block and the finally block up to its save(): the command
\* runs to its end, then the job is loaded again and given the outcome.  When
\* the executor raised, `successful` was never bound: reading it raises in
\* turn and run() ends there, before the save().
Execute(p) ==
    /\ proc[p].pc = "exec"
    /\ \E env \in EnvsOf(proc[p].job) :
          LET r == Executor(proc[p].job, env)
              got == [proc[p] EXCEPT !.raised = r.raised, !.successful = r.successful,
                                     !.stdout_str = r.stdout_str,
                                     !.stderr_str = r.stderr_str, !.outcome = r.outcome]
          IN /\ IF r.raised
                THEN /\ proc' = [proc EXCEPT ![p] = [got EXCEPT !.pc = "done",
                                    !.job = jobs[proc[p].id], !.result = "raised"]]
                     /\ ended' = [ended EXCEPT ![proc[p].id] = @ + 1]
                ELSE /\ proc' = [proc EXCEPT ![p] = [got EXCEPT !.pc = "save1",
                                    !.job = [jobs[proc[p].id] EXCEPT
                                                !.last_run_successful = r.successful,
                                                !.is_running = FALSE]]]
                     /\ UNCHANGED ended
             /\ channels' = [channels EXCEPT ![p] =
                                IF UsesShell(proc[p].job) THEN @
                                ELSE redirect(proc[p].job, env, @)]
    /\ UNCHANGED <<clock, jobs, logs, mails, nruns, form>>

\* A run() that would leave the save() of the outcome for later and go on
\* without having written it.
SaveOutcomeDeferred(p) ==
    /\ proc[p].pc = "save1"
    /\ proc' = [proc EXCEPT ![p].pc = IF proc[p].save THEN "save2" ELSE "log"]
    /\ UNCHANGED <<clock, jobs, logs, mails, ended, nruns, form, channels>>

\* Job.run, the save() that ends the finally block.
SaveOutcome(p) ==
    /\ proc[p].pc = "save1"
    /\ LET self == Save(proc[p].job, clock)
       IN /\ jobs' = [jobs EXCEPT ![proc[p].id] = self]
          /\ proc' = [proc EXCEPT ![p].pc = IF proc[p].save THEN "save2" ELSE "log",
                                  ![p].job = self]
    /\ UNCHANGED <<clock, logs, mails, ended, nruns, form, channels>>

\* The schedule Job.run gives the job it holds: last_run is the start of the
\* run and next_run the rule's next occurrence after it.
Reschedule(self, run_date) ==
    LET a == [self EXCEPT !.last_run = run_date]
    IN [a EXCEPT !.next_run = RruleAfter(a, run_date)]

\* A run() whose last save() would write the two schedule columns only.
SaveScheduleColumns(p) ==
    /\ proc[p].pc = "save2"
    /\ LET self == Save(Reschedule(proc[p].job, proc[p].run_date), clock)
       IN /\ jobs' = [jobs EXCEPT ![proc[p].id].last_run = self.last_run,
                                  ![proc[p].id].next_run = self.next_run]
          /\ proc' = [proc EXCEPT ![p].pc = "log", ![p].job = self]
    /\ UNCHANGED <<clock, logs, mails, ended, nruns, form, channels>>

\* Job.run, `if save:` with its save().
SaveSchedule(p) ==
    /\ proc[p].pc = "save2"
    /\ LET self == Save(Reschedule(proc[p].job, proc[p].run_date), clock)
       IN /\ jobs' = [jobs EXCEPT ![proc[p].id] = self]
          /\ proc' = [proc EXCEPT ![p].pc = "log", ![p].job = self]
    /\ UNCHANGED <<clock, logs, mails, ended, nruns, form, channels>>

\* A run() that would create the Log without passing success, which leaves
\* the field at its default.
CreateLogDefaultSuccess(p) ==
    /\ proc[p].pc = "log"
    /\ logs' = Append(logs, [job |-> proc[p].id, run_date |-> proc[p].run_date,
                             end_date |-> clock, stdout |-> proc[p].stdout_str,
                             stderr |-> proc[p].stderr_str, success |-> TRUE])
    /\ IF NotifyKind(proc[p].job.last_run_successful, proc[p].stdout_str,
                     proc[p].stderr_str) = "none"
       THEN /\ proc' = [proc EXCEPT ![p].pc = "done", ![p].log = Len(logs) + 1,
                                    ![p].result = "returned"]
            /\ ended' = [ended EXCEPT ![proc[p].id] = @ + 1]
       ELSE /\ proc' = [proc EXCEPT ![p].pc = "mail", ![p].log = Len(logs) + 1]
            /\ UNCHANGED ended
    /\ UNCHANGED <<clock, jobs, mails, nruns, form, channels>>

\* Job.run, Log.objects.create: end_date = now(); run() returns here when no
\* mail is due.
CreateLog(p) ==
    /\ proc[p].pc = "log"
    /\ logs' = Append(logs, [job |-> proc[p].id, run_date |-> proc[p].run_date,
                             end_date |-> clock, stdout |-> proc[p].stdout_str,
                             stderr |-> proc[p].stderr_str,
                             success |-> proc[p].job.last_run_successful])
    /\ IF NotifyKind(proc[p].job.last_run_successful, proc[p].stdout_str,
                     proc[p].stderr_str) = "none"
       THEN /\ proc' = [proc EXCEPT ![p].pc = "done", ![p].log = Len(logs) + 1,
                                    ![p].result = "returned"]
            /\ ended' = [ended EXCEPT ![proc[p].id] = @ + 1]
       ELSE /\ proc' = [proc EXCEPT ![p].pc = "mail", ![p].log = Len(logs) + 1]
            /\ UNCHANGED ended
    /\ UNCHANGED <<clock, jobs, mails, nruns, form, channels>>

\* Job.run, the call of log.email_subscribers: send_mail is called once and
\* either delivers or raises, which run() does not catch.
SendMail(p, delivered) ==
    /\ proc[p].pc = "mail"
    /\ mails' = Append(mails,
                  email_subscribers(proc[p].log,
                      NotifyKind(proc[p].job.last_run_successful, proc[p].stdout_str,
                                 proc[p].stderr_str) = "info"))
    /\ proc' = [proc EXCEPT ![p].pc = "done",
                            ![p].result = IF delivered THEN "returned" ELSE "mail raised"]
    /\ ended' = [ended EXCEPT ![proc[p].id] = @ + 1]
    /\ UNCHANGED <<clock, jobs, logs, nruns, form, channels>>

\* The admin change form is saved with the disabled box set to d and the other
\* fields as shown: Job.save.
SaveJob(j, d) ==
    /\ jobs' = [jobs EXCEPT ![j] = Save([jobs[j] EXCEPT !.disabled = d], clock)]
    /\ UNCHANGED <<clock, logs, mails, proc, ended, nruns, form, channels>>

\* JobAdmin.disable_jobs: queryset.update(disabled=True) writes the one column
\* of the selected rows.
disable_jobs(queryset) ==
    /\ jobs' = [j \in JobIds |->
                  IF j \in queryset THEN [jobs[j] EXCEPT !.disabled = TRUE] ELSE jobs[j]]
    /\ UNCHANGED <<clock, logs, mails, proc, ended, nruns, form, channels>>

\* JobAdmin.reset_jobs: queryset.update(is_running=False).
reset_jobs(queryset) ==
    /\ jobs' = [j \in JobIds |->
                  IF j \in queryset THEN [jobs[j] EXCEPT !.is_running = FALSE] ELSE jobs[j]]
    /\ UNCHANGED <<clock, logs, mails, proc, ended, nruns, form, channels>>

\* JobForm.clean_shell_command and JobForm.clean: each raises a
\* ValidationError when command and shell_command are both filled in, and
\* passes the data otherwise.  TRUE stands for passing.
clean_shell_command(cleaned_data) ==
    ~(cleaned_data.command # "" /\ cleaned_data.shell_command # "")
clean(cleaned_data) ==
    ~(cleaned_data.command # "" /\ cleaned_data.shell_command # "")

\* What the administrator may type into the add/change form: the texts of
\* params and args, and the two commands filled in or left blank.
ParamTexts ==
    {<<>>,
     <<ParamToken("interval", <<Num(15)>>, 1)>>,
     <<ParamToken("bysecond", <<Num(1)>>, 1),
       ParamToken("byminute", <<Num(1), Num(2), Num(4), Num(5)>>, 1)>>,
     <<ParamToken("badtoken", <<>>, 0)>>,
     <<ParamToken("bysecond", <<>>, 2), ParamToken("", <<>>, 0)>>,
     <<ParamToken("bysecond", <<Num(1)>>, 1), ParamToken("bysecond", <<Num(2)>>, 1)>>,
     <<ParamToken("interval", <<Word>>, 1)>>,
     <<ParamToken("badtoken", <<>>, 0), ParamToken("byminute", <<Num(1), Word>>, 1)>>}
ArgTexts ==
    {<<>>,
     <<ArgToken(<<"arg1">>, FALSE), ArgToken(<<"option1", "True">>, FALSE)>>,
     <<ArgToken(<<"a", "b", "c">>, FALSE)>>}
Posts ==
    [frequency : {"MINUTELY"}, params : ParamTexts, command : {"", "cmd"},
     shell_command : {"", "cmd"}, run_in_shell : {FALSE}, args : ArgTexts]

\* The administrator posts the add/change form of a job.
PostForm(f) ==
    /\ form.state \notin {"posted", "valid"}
    /\ form' = [state |-> "posted", data |-> f]
    /\ UNCHANGED <<clock, jobs, logs, mails, proc, ended, nruns, channels>>

\* The form is validated: JobForm.clean_shell_command, then JobForm.clean.
CleanForm ==
    /\ form.state = "posted"
    /\ form' = [form EXCEPT !.state =
                   IF clean_shell_command(form.data) /\ clean(form.data)
                   THEN "valid" ELSE "invalid"]
    /\ UNCHANGED <<clock, jobs, logs, mails, proc, ended, nruns, channels>>

\* The valid form is saved into job j: the posted fields go into the instance
\* and Job.save is called, which either raises or writes the record.
SaveForm(j) ==
    /\ form.state = "valid"
    /\ LET self == [jobs[j] EXCEPT !.frequency = form.data.frequency,
                                   !.params = form.data.params,
                                   !.command = form.data.command,
                                   !.shell_command = form.data.shell_command,
                                   !.run_in_shell = form.data.run_in_shell,
                                   !.args = form.data.args]
       IN IF SaveRaises(self)
          THEN /\ form' = [form EXCEPT !.state = "raised"]
               /\ UNCHANGED jobs
          ELSE /\ form' = [form EXCEPT !.state = "saved"]
               /\ jobs' = [jobs EXCEPT ![j] = Save(self, clock)]
    /\ UNCHANGED <<clock, logs, mails, proc, ended, nruns, channels>>

\* Caller p comes to the store for rows or for a job to run, as long as fewer
\* than `limit` runs were begun.
Call(p, limit) ==
    \/ nruns < limit /\ DueQuery(p)
    \/ nruns < limit /\ DriverRun(p)
    \/ nruns < limit /\ \E j \in JobIds : RunJobView(p, j)
    \/ nruns < limit /\ \E j \in JobIds : RunNoSave(p, j)

\* Caller p takes the next step of what it has begun.
Work(p) ==
    \/ DriverDone(p)
    \/ RunStart(p)
    \/ Execute(p)
    \/ SaveOutcome(p)
    \/ SaveSchedule(p)
    \/ CreateLog(p)
    \/ \E delivered \in BOOLEAN : SendMail(p, delivered)

\* One step of the administrator.
Admin ==
    \/ \E j \in JobIds, d \in BOOLEAN : SaveJob(j, d)
    \/ \E queryset \in SUBSET JobIds \ {{}} : disable_jobs(queryset)
    \/ \E queryset \in SUBSET JobIds \ {{}} : reset_jobs(queryset)

\* One caller at a time, with the administrator and the clock in between.
Next ==
    \/ Tick
    \/ Call(1, MaxRuns)
    \/ Work(1)
    \/ Admin

Spec == Init /\ [][Next]_vars

\* The administrator at the add/change form of a job that is not stored yet,
\* and the clock.
InitForm ==
    /\ clock = 0
    /\ jobs = [j \in JobIds |-> NoJob]
    /\ logs = <<>>
    /\ mails = <<>>
    /\ proc = [p \in Procs |-> IdleProc]
    /\ ended = [j \in JobIds |-> 0]
    /\ nruns = 0
    /\ form = NoForm
    /\ channels = [p \in Procs |-> "original"]

NextForm ==
    \/ Tick
    \/ \E f \in Posts : PostForm(f)
    \/ CleanForm
    \/ \E j \in JobIds : SaveForm(j)

SpecForm == InitForm /\ [][NextForm]_vars

\* Two callers side by side on a job with a plain schedule and a plain
\* command, and the clock.
InitOverlap ==
    /\ Init
    /\ \A j \in JobIds : jobs[j].params = <<>> /\ ~ShlexRaises(jobs[j].args)
                             /\ ~get_args(jobs[j].args).raised

NextOverlap ==
    \/ Tick
    \/ \E p \in Procs : Call(p, MaxOverlap)
    \/ \E p \in Procs : Work(p)

SpecOverlap == InitOverlap /\ [][NextOverlap]_vars

\* Two drivers side by side, each taking its jobs from due(), and the clock.
NextDrivers ==
    \/ Tick
    \/ \E p \in Procs : nruns < MaxOverlap /\ DueQuery(p)
    \/ \E p \in Procs : nruns < MaxOverlap /\ DriverRun(p)
    \/ \E p \in Procs : Work(p)

SpecDrivers == InitOverlap /\ [][NextDrivers]_vars

\* ----------------------------------------------------------------- claims

\* The Log rows of job j, the send_mail calls made for Log row l to one
\* subscriber list, and the callers whose run() has just ended.
LogsOf(j) == {i \in 1..Len(logs) : logs[i].job = j}
MailsFor(l, to) == {i \in 1..Len(mails) : mails[i].log = l /\ mails[i].to = to}
Ended(p) == proc[p].pc = "done"

\* C1: every run() that has ended has created one Log row, whatever the
\* executor did, and a job has as many Log rows as runs that have ended.
C1_OneLogPerRun ==
    /\ \A p \in Procs : Ended(p) => proc[p].log \in LogsOf(proc[p].id)
    /\ \A j \in JobIds : Cardinality(LogsOf(j)) = ended[j]

\* C2: run() ends by returning, whatever the executor did (a failing mail
\* transport aside), and a failure shows as success = false with stderr text in
\* the Log.
C2_RunNeverRaises ==
    \A p \in Procs :
        Ended(p) /\ proc[p].result # "mail raised" =>
            /\ proc[p].result = "returned"
            /\ ~proc[p].successful =>
                  /\ logs[proc[p].log].success = FALSE
                  /\ logs[proc[p].log].stderr # <<>>

\* The step in which caller p's due() query is answered.
Queried(p) == proc[p].pc # "selected" /\ proc'[p].pc = "selected"
Answer(p) == {r.id : r \in proc'[p].rows}

C4_DisabledHasNoNextRun ==
    \A j \in JobIds : jobs[j].disabled => jobs[j].next_run = Null /\ j \notin Due(clock)

\* The step in which caller p's run(save=True) stores the new schedule.
Rescheduled(p) == proc[p].pc = "save2" /\ proc'[p].pc = "log"

\* C5: the next_run a run(save=True) stores for a job that is not disabled is
\* there and not earlier than the next_run the run found at its start, nor
\* than the next_run stored just before.
C5_NextRunOnlyAdvances ==
    [][\A p \in Procs :
          Rescheduled(p) /\ ~jobs'[proc[p].id].disabled =>
              /\ proc[p].next_run0 # Null =>
                    /\ jobs'[proc[p].id].next_run # Null
                    /\ jobs'[proc[p].id].next_run >= proc[p].next_run0
              /\ jobs[proc[p].id].next_run # Null =>
                    /\ jobs'[proc[p].id].next_run # Null
                    /\ jobs'[proc[p].id].next_run >= jobs[proc[p].id].next_run]_vars

\* C6: the next_run a run(save=True) stores for a job that is not disabled is
\* there and is later than the start of the run.
C6_NextRunAfterStart ==
    [][\A p \in Procs :
          Rescheduled(p) /\ ~jobs'[proc[p].id].disabled =>
              /\ jobs'[proc[p].id].next_run # Null
              /\ jobs'[proc[p].id].next_run > proc[p].run_date]_vars

PastSchedule(p) ==
    \/ Rescheduled(p)
    \/ proc[p].pc = "exec" /\ proc'[p].pc = "done"

\* C9: a run(save=True) whose execution failed in any way leaves last_run at
\* the start of the run and, for a job that is not disabled, next_run at the
\* rule's next occurrence after it.
C9_FailedRunReschedules ==
    [][\A p \in Procs :
          PastSchedule(p) /\ proc[p].save /\ proc'[p].outcome # "ok" =>
              /\ jobs'[proc[p].id].last_run = proc[p].run_date
              /\ ~jobs'[proc[p].id].disabled =>
                    jobs'[proc[p].id].next_run =
                        After(jobs'[proc[p].id].frequency, proc[p].run_date,
                              get_params(jobs'[proc[p].id].params).dict, proc[p].run_date)]_vars

\* Caller p holds the job as it is stored, the fields run() itself sets aside.
Fresh(p) ==
    [proc[p].job EXCEPT !.is_running = FALSE, !.last_run_successful = TRUE]
        = [jobs[proc[p].id] EXCEPT !.is_running = FALSE, !.last_run_successful = TRUE]

\* C10: no step of a run(save=False) that holds the job as it is stored
\* changes the stored last_run or next_run.
C10_NoSaveKeepsSchedule ==
    [][\A p \in Procs :
          (/\ proc[p].pc \in {"start", "exec", "save1", "log", "mail"}
           /\ ~proc[p].save
           /\ Fresh(p)
           /\ proc'[p] # proc[p]) =>
              /\ jobs'[proc[p].id].last_run = jobs[proc[p].id].last_run
              /\ jobs'[proc[p].id].next_run = jobs[proc[p].id].next_run]_vars

\* The step after which caller p's run() goes into the job's command: the
\* save() of is_running is done.
Starts(p) == proc[p].pc = "start" /\ proc'[p].pc = "exec"

\* C11: run() does not go into the command of a job that is stored with
\* disabled set at that moment, whether run() was reached from due() or from
\* run_job_view.
C11_DisabledNeverExecutes ==
    [][\A p \in Procs : Starts(p) => ~jobs'[proc[p].id].disabled]_vars

\* The form has passed validation; the two command modes of a record.
Accepted == form.state \in {"valid", "saved", "raised"}
InProcessMode(d) == d.command # ""
ShellMode(d) == d.shell_command # ""

\* C12: the validator passes no form with both command modes filled in and
\* none with neither: a form that passed it, and a job stored from it, has
\* exactly one mode.
C12_ExactlyOneCommandMode ==
    /\ Accepted => InProcessMode(form.data) # ShellMode(form.data)
    /\ \A j \in JobIds : jobs[j] # NoJob => InProcessMode(jobs[j]) # ShellMode(jobs[j])

\* The tokens of a params text that hold exactly one ':'.
OneColon(params) == {i \in 1..Len(params) : params[i].colons = 1}

\* C13: parsing the params of a form that Job.save was called with has not
\* raised, whatever the text; the result has exactly the keys of the tokens
\* with one ':', a key with one value mapped to a scalar and a key with several
\* to the list, as bysecond:1;byminute:1,2,4,5 gives bysecond 1 and byminute
\* [1, 2, 4, 5].
C13_ParseParamsNeverFails ==
    /\ form.state # "raised"
    /\ form.state = "saved" =>
          LET r == get_params(form.data.params)
          IN /\ ~r.raised
             /\ DOMAIN r.dict = {form.data.params[i].key : i \in OneColon(form.data.params)}
             /\ \A i \in OneColon(form.data.params) :
                   Len(form.data.params[i].vals) = 1 => r.dict[form.data.params[i].key].scalar
             /\ form.data.params = <<ParamToken("bysecond", <<Num(1)>>, 1),
                                     ParamToken("byminute", <<Num(1), Num(2), Num(4), Num(5)>>, 1)>>
                   => r.dict = [k \in {"bysecond", "byminute"} |->
                                   IF k = "bysecond" THEN [scalar |-> TRUE, v |-> 1]
                                   ELSE [scalar |-> FALSE, v |-> <<1, 2, 4, 5>>]]

\* The tokens of an args text that hold '=', and the others in their order.
WithEquals(args) == {i \in 1..Len(args) : Len(args[i].parts) > 1}
Positional(args) == SelectSeq(args, LAMBDA t : Len(t.parts) = 1)

\* C14: parsing the args of an in-process command job that has been run has
\* not raised; every token with '=' gave one option, its key the text before
\* the first '=' and its value all that follows it, every other token is
\* positional in its place, as arg1 option1=True gives [arg1] and option1 True.
C14_ArgsSplitOnFirstEquals ==
    \A p \in Procs :
        Ended(p) /\ ~UsesShell(proc[p].job) =>
            LET args == proc[p].job.args
                r == get_args(args)
            IN /\ proc[p].outcome # "argparse"
               /\ ~r.raised
               /\ DOMAIN r.options = {args[i].parts[1] : i \in WithEquals(args)}
               /\ \A k \in DOMAIN r.options :
                     \E i \in WithEquals(args) :
                         args[i].parts[1] = k /\ <<r.options[k]>> = Tail(args[i].parts)
               /\ r.args = [i \in 1..Len(Positional(args)) |-> Positional(args)[i].parts[1]]
               /\ args = <<ArgToken(<<"arg1">>, FALSE), ArgToken(<<"option1", "True">>, FALSE)>>
                     => r.args = <<"arg1">> /\ r.options = [k \in {"option1"} |-> "True"]

\* C15: run() stores is_running = True before it goes into the command, and
\* when it has ended, on whatever path, the job is stored with is_running =
\* False again.
C15_RunningFlagCleared ==
    [][\A p \in Procs :
          /\ Starts(p) => jobs'[proc[p].id].is_running
          /\ (~Ended(p) /\ Ended(p)') => ~jobs'[proc[p].id].is_running]_vars

\* Callers p and q are both inside the command of the same job.
BothExecute(p, q) ==
    p # q /\ proc[p].pc = "exec" /\ proc[q].pc = "exec" /\ proc[p].id = proc[q].id

\* C16: is_running guards a job only once it is stored: due() never answers
\* with a job that is stored running, so two drivers that hold the same job
\* were each given it while the flag was not stored, and their runs of the job,
\* once returned, have made a Log each.
C16_RunningFlagGuardsOnceStored ==
    [][/\ \A p \in Procs : Queried(p) => \A j \in Answer(p) : ~jobs[j].is_running
       /\ \A p, q \in Procs :
             (p # q /\ Ended(p)' /\ Ended(q)' /\ proc'[p].id = proc'[q].id
                /\ proc'[p].result = "returned" /\ proc'[q].result = "returned") =>
                 /\ proc'[p].log # proc'[q].log
                 /\ {proc'[p].log, proc'[q].log} \subseteq LogsOf(proc[p].id)']_vars

\* Two drivers that both got the job from due() are inside its command at the
\* same time.
C16_Witness == \E p, q \in Procs : BothExecute(p, q)

\* The fields of a job other than is_running, last_run_successful, last_run
\* and next_run.
Other(job) ==
    [frequency |-> job.frequency, params |-> job.params, command |-> job.command,
     shell_command |-> job.shell_command, run_in_shell |-> job.run_in_shell,
     args |-> job.args, disabled |-> job.disabled]

\* The step in which caller p's run() loads the job again after the command,
\* and the steps of its save() calls that follow.
Reloads(p) == proc[p].pc = "exec" /\ proc'[p].pc = "save1"
SavesAfterReload(p) == proc[p].pc \in {"save1", "save2"} /\ proc'[p].pc # proc[p].pc

\* C17: what another writer has stored in the other fields while the command
\* ran is what run() holds after loading the job again, and a save() of run()
\* that finds those fields stored as run() holds them leaves them so.
C17_ReloadKeepsOtherFields ==
    [][\A p \in Procs :
          /\ Reloads(p) => Other(proc'[p].job) = Other(jobs[proc[p].id])
          /\ (SavesAfterReload(p) /\ Other(jobs[proc[p].id]) = Other(proc[p].job)) =>
                Other(jobs'[proc[p].id]) = Other(jobs[proc[p].id])]_vars

\* run() has loaded the job again and holds it disabled with a next_run: it
\* was disabled by disable_jobs after run()'s first save(), which leaves no
\* next_run to a disabled job.
C17_Witness ==
    \E p \in Procs :
        proc[p].pc = "save1" /\ proc[p].job.disabled /\ proc[p].job.next_run # Null

\* C18: a save() of run() after the reload writes the other fields as run()
\* holds them and run() goes on without an error; when another writer has
\* stored a different value in between, that value is gone.
C18_LastWriterWins ==
    [][\A p \in Procs :
          SavesAfterReload(p) =>
              /\ Other(jobs'[proc[p].id]) = Other(proc[p].job)
              /\ proc'[p].pc \in {"save2", "log"}
              /\ Other(jobs[proc[p].id]) # Other(proc[p].job) =>
                    Other(jobs'[proc[p].id]) # Other(jobs[proc[p].id])]_vars

\* run() is before its last save() and the job is stored with disabled other
\* than run() holds it since the reload.
C18_Witness ==
    \E p \in Procs :
        proc[p].pc = "save2" /\ jobs[proc[p].id].disabled # proc[p].job.disabled

\* C19: outside the call of the in-process command, sys.stdout and sys.stderr
\* of a caller's process are the original ones, however the command ended.
C19_ChannelsRestored == \A p \in Procs : channels[p] = "original"

\* C20: while a caller is inside the command of a job, the job is stored with
\* is_running set and due() does not return it.
C20_RunningWhileExecuting ==
    \A p \in Procs :
        proc[p].pc = "exec" =>
            jobs[proc[p].id].is_running /\ proc[p].id \notin Due(clock)

\* The steps in which caller p's run() creates the Log and calls send_mail.
CreatesLog(p) == proc[p].pc = "log" /\ proc'[p].pc # "log"
Mails(p) == proc[p].pc = "mail" /\ proc'[p].pc # "mail"

\* Caller p's run() has stored its outcome in job `job` and, in save mode, the
\* schedule: last_run the start of the run and, for a job that is not
\* disabled, next_run the rule's next occurrence after it.
OutcomeStored(p, job) ==
    /\ ~job.is_running
    /\ job.last_run_successful = proc[p].successful
    /\ proc[p].save =>
          /\ job.last_run = proc[p].run_date
          /\ ~job.disabled =>
                job.next_run = After(job.frequency, proc[p].run_date,
                                     get_params(job.params).dict, proc[p].run_date)

\* C21: when run() creates the Log, the outcome and the schedule are stored
\* already; when it calls send_mail, they are stored and the Log of the run
\* exists, and so they are after a send_mail that raised.
C21_StoredThenLoggedThenMailed ==
    [][\A p \in Procs :
          /\ CreatesLog(p) => OutcomeStored(p, jobs[proc[p].id])
          /\ Mails(p) =>
                /\ OutcomeStored(p, jobs[proc[p].id])
                /\ proc[p].log \in LogsOf(proc[p].id)
                /\ logs[proc[p].log].run_date = proc[p].run_date
                /\ proc'[p].result = "mail raised" =>
                      /\ OutcomeStored(p, jobs'[proc[p].id])
                      /\ proc[p].log \in LogsOf(proc[p].id)']_vars

\* A run(save=True) has ended in a send_mail that raised, some time after it
\* began.
C21_Witness ==
    \E p \in Procs :
        /\ Ended(p) /\ proc[p].result = "mail raised" /\ proc[p].save
        /\ logs[proc[p].log].end_date > proc[p].run_date

\* The Log row of job j created last.
LatestLog(j) == CHOOSE i \in LogsOf(j) : \A i2 \in LogsOf(j) : i2 <= i

====
